---- MODULE Spec2Model ----
(***************************************************************************)
(* li-filter (service.py): a mail-triggered handler that decodes a job     *)
(* alert mail, extracts the job ids linked in it, fetches every listing,   *)
(* keeps the listings whose description is in a required language, and     *)
(* mails the filtered digest back.                                         *)
(*                                                                         *)
(* Python strings on which the code scans, splits or matches are modelled  *)
(* as sequences of one-character strings; strings that are only compared   *)
(* for equality (tag names, attribute values, language codes, content      *)
(* types) are TLA+ strings.                                                *)
(***************************************************************************)
EXTENDS Integers, Sequences, FiniteSets, TLC

VARIABLES
    dp,               \* the DescriptionParser object: flags and data
    fed,              \* the parser events fed so far (history)
    pc,               \* position of the invocation in handler
    event,            \* the trigger: action type, subject, stored message
    s3_reads,         \* number of reads of the stored raw message
    msg_parts,        \* message.walk() of the message being decoded
    plain_text_body,  \* result of decode_email
    job_ids,          \* result of extract_jobs (a list)
    idx,              \* number of job ids filter_jobs has gone through
    fetched,          \* the requests.get calls made, with their outcomes
    filtered_jobs,    \* the list filter_jobs builds
    reply,            \* result of build_reply plus the reply subject
    sends,            \* the ses send_email calls attempted
    raised,           \* the exception leaving the handler, or "none"
    title,            \* a fetched title whose fields are split
    fields            \* the fields split from title

parserVars == <<dp, fed>>
handlerVars == <<pc, event, s3_reads, msg_parts, plain_text_body, job_ids, idx,
                 fetched, filtered_jobs, reply, sends, raised>>
titleVars == <<title, fields>>
vars == <<dp, fed, pc, event, s3_reads, msg_parts, plain_text_body, job_ids,
          idx, fetched, filtered_jobs, reply, sends, raised, title, fields>>

(***************************************************************************)
(* Bounds of the model.                                                    *)
(***************************************************************************)
MaxEvents == 4
MaxParts == 3
MaxPieces == 3
MaxTitlePieces == 4

(***************************************************************************)
(* Program constants.                                                      *)
(***************************************************************************)
LI_BASE_URL ==
    <<"h","t","t","p","s",":","/","/","w","w","w",".","l","i","n","k","e","d",
      "i","n",".","c","o","m","/","c","o","m","m","/","j","o","b","s","/","v",
      "i","e","w","/">>

DESC_CLASS == "description__text description__text--rich"

SEP_IN == <<" ","i","n"," ">>

SEP_HIRING_SP == <<" ","h","i","r","i","n","g"," ">>

SEP_HIRING == <<" ","h","i","r","i","n","g">>

SEP_BAR == <<" ","|"," ">>

NO_TITLE_FOUND ==
    <<"N","o"," ","T","i","t","l","e"," ","F","o","u","n","d">>

Digits == {"0","1","2","3","4","5","6","7","8","9"}

(***************************************************************************)
(* Python str operations.                                                  *)
(***************************************************************************)
\* s[i:i+len(p)] == p, with i counted from 1
StartsAt(s, p, i) ==
    /\ i >= 1
    /\ i + Len(p) - 1 <= Len(s)
    /\ \A k \in 1..Len(p) : s[i + k - 1] = p[k]

\* str.find: the first position >= from where p occurs in s, 0 when none
Find(s, p, from) ==
    LET hits == {i \in from..(Len(s) - Len(p) + 1) : StartsAt(s, p, i)}
    IN  IF hits = {} THEN 0 ELSE CHOOSE i \in hits : \A j \in hits : i <= j

\* str.split(sep): the pieces between the non-overlapping occurrences of sep,
\* found left to right
RECURSIVE Split(_, _)
Split(s, sep) ==
    LET i == Find(s, sep, 1)
    IN  IF i = 0
        THEN <<s>>
        ELSE <<SubSeq(s, 1, i - 1)>> \o Split(SubSeq(s, i + Len(sep), Len(s)), sep)

\* sep.join(list)
RECURSIVE Join(_, _)
Join(list, sep) ==
    IF list = <<>> THEN <<>>
    ELSE IF Len(list) = 1 THEN list[1]
    ELSE list[1] \o sep \o Join(Tail(list), sep)

\* the concatenation of a list of strings
RECURSIVE Concat(_)
Concat(list) ==
    IF list = <<>> THEN <<>> ELSE list[1] \o Concat(Tail(list))

\* dict.get(key, default)
DictGet(d, key, default) ==
    IF key \in DOMAIN d THEN d[key] ELSE default

Last(list) == list[Len(list)]

SeqsUpTo(S, n) == UNION {[1..k -> S] : k \in 0..n}

(***************************************************************************)
(* DescriptionParser: the HTMLParser callbacks, as functions of the        *)
(* parser object.                                                          *)
(***************************************************************************)
DescriptionParserInit ==
    [recording_title |-> FALSE,
     recording_desc  |-> FALSE,
     data            |-> [title |-> <<>>, description |-> <<>>]]

handle_starttag(self, tag, attributes) ==
    IF tag = "title"
    THEN [self EXCEPT !.recording_title = TRUE]
    ELSE IF tag = "div"
    THEN IF \E k \in 1..Len(attributes) :
                attributes[k][1] = "class" /\ attributes[k][2] = DESC_CLASS
         THEN [self EXCEPT !.recording_desc = TRUE]
         ELSE self
    ELSE self

handle_endtag(self, tag) ==
    LET s1 == IF tag = "div" THEN [self EXCEPT !.recording_desc = FALSE] ELSE self
    IN  IF tag = "title" THEN [s1 EXCEPT !.recording_title = FALSE] ELSE s1

\* a parser that keeps the first title text instead of the last
handle_data_first_title(self, text) ==
    LET s1 == IF self.recording_title /\ self.data.title = <<>>
              THEN [self EXCEPT !.data.title = text] ELSE self
    IN  IF s1.recording_desc
        THEN [s1 EXCEPT !.data.description = Append(@, text)]
        ELSE s1

handle_data(self, text) ==
    LET s1 == IF self.recording_title
              THEN [self EXCEPT !.data.title = text] ELSE self
    IN  IF s1.recording_desc
        THEN [s1 EXCEPT !.data.description = Append(@, text)]
        ELSE s1

\* HTMLParser's dispatch of one parsed token to its callback
Dispatch(self, ev) ==
    CASE ev.type = "start" -> handle_starttag(self, ev.tag, ev.attrs)
      [] ev.type = "end"   -> handle_endtag(self, ev.tag)
      [] ev.type = "data"  -> handle_data(self, ev.text)

\* dp.feed(r.text): every token of the page, in order
RECURSIVE feed(_, _)
feed(self, tokens) ==
    IF tokens = <<>> THEN self
    ELSE feed(Dispatch(self, Head(tokens)), Tail(tokens))

StartTag(tag, attrs) == [type |-> "start", tag |-> tag, attrs |-> attrs]
EndTag(tag) == [type |-> "end", tag |-> tag]
Data(text) == [type |-> "data", text |-> text]

\* inputs of the parser specification
Tags == {"title", "div", "p"}
AttrLists ==
    { <<>>,
      << <<"class", DESC_CLASS>> >>,
      << <<"class", "description__text">> >>,
      << <<"id", DESC_CLASS>>, <<"class", DESC_CLASS>> >> }
Texts == { <<"a">>, <<"b">> }

HandlerIdle ==
    /\ pc = "idle"
    /\ event = [action |-> [type |-> "none"], sender |-> "", subject |-> <<>>,
                stored |-> <<>>]
    /\ s3_reads = 0
    /\ msg_parts = <<>>
    /\ plain_text_body = <<>>
    /\ job_ids = <<>>
    /\ idx = 0
    /\ fetched = <<>>
    /\ filtered_jobs = <<>>
    /\ reply = [built |-> FALSE]
    /\ sends = <<>>
    /\ raised = "none"

TitleIdle ==
    /\ title = <<>>
    /\ fields = [state |-> "idle"]

ParserIdle ==
    /\ dp = DescriptionParserInit
    /\ fed = <<>>

InitParser ==
    /\ dp = DescriptionParserInit
    /\ fed = <<>>
    /\ HandlerIdle
    /\ TitleIdle

FeedStartTag ==
    /\ Len(fed) < MaxEvents
    /\ \E tag \in Tags, attrs \in AttrLists :
          /\ tag # "div" => attrs = <<>>
          /\ dp' = handle_starttag(dp, tag, attrs)
          /\ fed' = Append(fed, StartTag(tag, attrs))
    /\ UNCHANGED <<handlerVars, titleVars>>

FeedEndTag ==
    /\ Len(fed) < MaxEvents
    /\ \E tag \in Tags :
          /\ dp' = handle_endtag(dp, tag)
          /\ fed' = Append(fed, EndTag(tag))
    /\ UNCHANGED <<handlerVars, titleVars>>

FeedData ==
    /\ Len(fed) < MaxEvents
    /\ \E text \in Texts :
          /\ dp' = handle_data(dp, text)
          /\ fed' = Append(fed, Data(text))
    /\ UNCHANGED <<handlerVars, titleVars>>

NextParser == FeedStartTag \/ FeedEndTag \/ FeedData

SpecParser == InitParser /\ [][NextParser]_vars

(***************************************************************************)
(* C10.  After any sequence of tag-open, tag-close and text events: the    *)
(* title flag is set iff the most recent title open/close was an open; the *)
(* description flag is set iff the most recent event among (open of a div  *)
(* with the exact class, close of any div) was such an open; the title is  *)
(* the last text seen while the title flag was set; the description is the *)
(* list, in order, of the texts seen while the description flag was set.   *)
(***************************************************************************)
IsTitleOpen(ev) == ev.type = "start" /\ ev.tag = "title"
IsTitleClose(ev) == ev.type = "end" /\ ev.tag = "title"
IsDescOpen(ev) ==
    /\ ev.type = "start"
    /\ ev.tag = "div"
    /\ \E k \in DOMAIN ev.attrs : ev.attrs[k] = <<"class", DESC_CLASS>>
IsDivClose(ev) == ev.type = "end" /\ ev.tag = "div"

\* the flag's value after the first n events: its most recent open/close
\* event among them exists and is an open
TitleFlagAfter(n) ==
    \E i \in 1..n :
        /\ IsTitleOpen(fed[i])
        /\ \A j \in (i + 1)..n : ~IsTitleClose(fed[j])
DescFlagAfter(n) ==
    \E i \in 1..n :
        /\ IsDescOpen(fed[i])
        /\ \A j \in (i + 1)..n : ~IsDivClose(fed[j])

TitleTexts == {i \in 1..Len(fed) : fed[i].type = "data" /\ TitleFlagAfter(i - 1)}
DescTextAt(i) == fed[i].type = "data" /\ DescFlagAfter(i - 1)
RECURSIVE DescTextsFrom(_)
DescTextsFrom(i) ==
    IF i > Len(fed) THEN <<>>
    ELSE (IF DescTextAt(i) THEN <<fed[i].text>> ELSE <<>>) \o DescTextsFrom(i + 1)

ParserFlagsAndData ==
    /\ dp.recording_title = TitleFlagAfter(Len(fed))
    /\ dp.recording_desc = DescFlagAfter(Len(fed))
    /\ dp.data.title =
          IF TitleTexts = {} THEN <<>>
          ELSE fed[CHOOSE i \in TitleTexts : \A j \in TitleTexts : j <= i].text
    /\ dp.data.description = DescTextsFrom(1)

\* two different texts inside a title element, the later one kept
ParserTitleOverwritten ==
    /\ Len(fed) = 3
    /\ IsTitleOpen(fed[1])
    /\ fed[2].type = "data"
    /\ fed[3].type = "data"
    /\ fed[2].text # fed[3].text
    /\ dp.recording_title
    /\ dp.data.title = fed[3].text

(***************************************************************************)
(* decode_email: message.walk() is the list of the message's parts in      *)
(* traversal order, each with its content type and payload.                *)
(***************************************************************************)
Part(ctype, payload) == [content_type |-> ctype, payload |-> payload]

\* the loop over message.walk(), decoded_message being the value so far
RECURSIVE walk_parts(_, _)
walk_parts(parts, decoded_message) ==
    IF parts = <<>> THEN decoded_message
    ELSE walk_parts(Tail(parts),
                    IF Head(parts).content_type = "text/plain"
                    THEN Head(parts).payload
                    ELSE decoded_message)

\* a decoder that stops at the first text/plain part
decode_email_first_match(parts) ==
    LET plain == {i \in 1..Len(parts) : parts[i].content_type = "text/plain"}
    IN  IF plain = {} THEN <<>>
        ELSE parts[CHOOSE i \in plain : \A j \in plain : i <= j].payload

decode_email(parts) == walk_parts(parts, <<>>)

(***************************************************************************)
(* extract_jobs: re.findall(LI_BASE_URL + r"\d+", body), the last path     *)
(* segment of every match, as a set, filtered to length 10.                *)
(***************************************************************************)
\* one character of LI_BASE_URL used as a regular expression: "." matches
\* any character but a newline, every other character of it matches itself
RegexCharMatches(p, c) == IF p = "." THEN c # "\n" ELSE p = c

UrlPatternMatchesAt(s, i) ==
    /\ i + Len(LI_BASE_URL) - 1 <= Len(s)
    /\ \A k \in 1..Len(LI_BASE_URL) : RegexCharMatches(LI_BASE_URL[k], s[i + k - 1])

\* \d+ is greedy: the last position of the digit run that starts at j
\* (j - 1 when s[j] is no digit)
RECURSIVE DigitRunEnd(_, _)
DigitRunEnd(s, j) ==
    IF j <= Len(s) /\ s[j] \in Digits THEN DigitRunEnd(s, j + 1) ELSE j - 1

\* the end of the match of the pattern at position i, 0 when there is none
MatchEnd(s, i) ==
    IF UrlPatternMatchesAt(s, i)
    THEN LET e == DigitRunEnd(s, i + Len(LI_BASE_URL))
         IN  IF e >= i + Len(LI_BASE_URL) THEN e ELSE 0
    ELSE 0

\* re.findall: the non-overlapping matches, scanning left to right from pos
RECURSIVE findall(_, _)
findall(s, pos) ==
    IF pos > Len(s) THEN <<>>
    ELSE LET e == MatchEnd(s, pos)
         IN  IF e > 0
             THEN <<SubSeq(s, pos, e)>> \o findall(s, e + 1)
             ELSE findall(s, pos + 1)

extract_jobs(body) ==
    LET matches == findall(body, 1)
        job_id_set == {Last(Split(matches[k], <<"/">>)) : k \in 1..Len(matches)}
    IN  {x \in job_id_set : Len(x) = 10}

\* list(...) of a set: its elements once each, in an order the set decides
ListsOf(S) == {q \in [1..Cardinality(S) -> S] : \A x \in S : \E k \in DOMAIN q : q[k] = x}

(***************************************************************************)
(* filter_jobs, lines 109-112: the fields split from the fetched title.    *)
(* A [1] on a split that found no separator is an IndexError.              *)
(***************************************************************************)
NoFields == [raised |-> TRUE, job_title |-> <<>>, company |-> <<>>, place |-> <<>>]

\* a splitter that degrades to empty fields where the code raises
title_fields_lenient(t) ==
    LET by_in == Split(t, SEP_IN)
        by_hiring == Split(t, SEP_HIRING_SP)
    IN  [raised    |-> FALSE,
         job_title |-> IF Len(by_hiring) < 2 THEN <<>>
                       ELSE Split(by_hiring[2], SEP_IN)[1],
         company   |-> Split(t, SEP_HIRING)[1],
         place     |-> IF Len(by_in) < 2 THEN <<>> ELSE Split(by_in[2], SEP_BAR)[1]]

title_fields(t) ==
    LET by_in == Split(t, SEP_IN)
        by_hiring == Split(t, SEP_HIRING_SP)
    IN  IF Len(by_in) < 2 \/ Len(by_hiring) < 2
        THEN NoFields
        ELSE [raised    |-> FALSE,
              job_title |-> Split(by_hiring[2], SEP_IN)[1],
              company   |-> Split(t, SEP_HIRING)[1],
              place     |-> Split(by_in[2], SEP_BAR)[1]]

ACME_TITLE ==
    <<"A","c","m","e"," ","C","o","r","p"," ","h","i","r","i","n","g"," ","S",
      "e","n","i","o","r"," ","E","n","g","i","n","e","e","r"," ","i","n"," ",
      "S","p","r","i","n","g","f","i","e","l","d"," ","|"," ","L","i","n","k",
      "e","d","I","n">>

\* inputs of the title specification: titles put together from these pieces
TitlePieces ==
    { <<"A">>,
      SEP_HIRING_SP \o <<"B">>,
      SEP_IN \o <<"C">>,
      SEP_BAR \o <<"L">>,
      SEP_HIRING \o <<"s">> }

TitleInputs ==
    {Concat(ps) : ps \in SeqsUpTo(TitlePieces, MaxTitlePieces)} \cup {ACME_TITLE}

InitTitle ==
    /\ title \in TitleInputs
    /\ fields = <<>>
    /\ ParserIdle
    /\ HandlerIdle

SplitTitle ==
    /\ fields = <<>>
    /\ fields' = <<title_fields(title)>>
    /\ UNCHANGED <<title, parserVars, handlerVars>>

NextTitle == SplitTitle

SpecTitle == InitTitle /\ [][NextTitle]_vars

(***************************************************************************)
(* C6.  For every fetched title that contains the separators, the fields   *)
(* filter_jobs computes are those of the specified splitting: company is   *)
(* the text left of the first " hiring "; job title the text between that  *)
(* " hiring " and the first " in " after it; place the text after that     *)
(* " in " up to the first " | ".  The Acme title gives ("Senior Engineer", *)
(* "Acme Corp", "Springfield").                                            *)
(***************************************************************************)
FirstHiring(t) == Find(t, SEP_HIRING_SP, 1)
FirstInAfterHiring(t) == Find(t, SEP_IN, FirstHiring(t) + Len(SEP_HIRING_SP))
ContainsSeparators(t) == FirstHiring(t) > 0 /\ FirstInAfterHiring(t) > 0

SpecifiedFields(t) ==
    LET h == FirstHiring(t)
        n == FirstInAfterHiring(t)
        rest == SubSeq(t, n + Len(SEP_IN), Len(t))
        b == Find(rest, SEP_BAR, 1)
    IN  [raised    |-> FALSE,
         job_title |-> SubSeq(t, h + Len(SEP_HIRING_SP), n - 1),
         company   |-> SubSeq(t, 1, h - 1),
         place     |-> IF b = 0 THEN rest ELSE SubSeq(rest, 1, b - 1)]

TitleFieldsAsSpecified ==
    (fields # <<>> /\ ContainsSeparators(title)) => fields[1] = SpecifiedFields(title)

\* the part of C6 the code satisfies: the Acme title of the spec's scenario
AcmeTitleFields ==
    (fields # <<>> /\ title = ACME_TITLE) =>
        /\ fields[1].job_title = SubSeq(ACME_TITLE, 18, 32)
        /\ fields[1].company = SubSeq(ACME_TITLE, 1, 9)
        /\ fields[1].place = SubSeq(ACME_TITLE, 37, 47)
        /\ ~fields[1].raised

(***************************************************************************)
(* filter_jobs: one requests.get per job id, in the order of the list.     *)
(***************************************************************************)
required_languages == <<"en">>

\* requests' Response.ok: raise_for_status() does not raise, which it does
\* for the statuses 400..599
ok(r) == ~(400 <= r.status /\ r.status < 600)

\* a classifier whose failure counts as English
language_of_default_en(detected) == IF detected = "fail" THEN "en" ELSE detected

\* lines 113-116: detect() raising is caught and gives 'unknown'
language_of(detected) == IF detected = "fail" THEN "unknown" ELSE detected

InList(x, list) == \E k \in 1..Len(list) : list[k] = x

\* one iteration of the loop over job_ids, for the response r of its fetch:
\* what it fetched and computed, the exception that ends it, and whether it
\* appends a listing
iteration(job_id, r) ==
    LET job_url == LI_BASE_URL \o job_id
        none == [job_id |-> job_id, response |-> r, title |-> <<>>,
                 language |-> "", error |-> "none", appended |-> FALSE,
                 job |-> <<>>]
    IN  IF r.kind = "error"
        THEN [none EXCEPT !.error = "ConnectionError"]
        ELSE IF ok(r)
        THEN LET parsed == feed(DescriptionParserInit, r.page)
                 t == DictGet(parsed.data, "title", NO_TITLE_FOUND)
                 f == title_fields(t)
                 language == language_of(r.detect)
             IN  IF f.raised
                 THEN [none EXCEPT !.title = t, !.error = "IndexError"]
                 ELSE [none EXCEPT !.title = t,
                                   !.language = language,
                                   !.appended = InList(language, required_languages),
                                   !.job = <<f.job_title, f.company, f.place, job_url>>]
        ELSE none

(***************************************************************************)
(* build_reply and the reply subject.                                      *)
(***************************************************************************)
Text(s) == [kind |-> "text", value |-> s]
NL == [kind |-> "text", value |-> "\n"]
CRLF == [kind |-> "text", value |-> "\r\n"]
Entry(i, job) == [kind |-> "entry", n |-> i, value |-> Join(job, <<",", " ">>)]

\* sep.join of a list of report tokens
RECURSIVE JoinTokens(_, _)
JoinTokens(list, sep) ==
    IF list = <<>> THEN <<>>
    ELSE IF Len(list) = 1 THEN <<list[1]>>
    ELSE <<list[1], sep>> \o JoinTokens(Tail(list), sep)

clrs == <<"#ffffff", "#EEF7FA">>

build_reply(jobs, subject) ==
    LET datefmt == "%d %B %Y"
        salutation == "These are your filtered job alerts for " \o datefmt
        plaintext_body ==
            <<Text("Job Alerts"), NL, Text("-------------"), NL, Text(salutation), NL, NL>>
            \o JoinTokens([i \in 1..Len(jobs) |-> Entry(i, jobs[i])], CRLF)
            \o <<NL, Text("Thanks for using li-filter")>>
        htmldoc ==
            [title |-> "Job Alerts",
             h1    |-> "Job Alerts",
             p     |-> <<subject, " on ", datefmt>>,
             thead |-> <<"", "Job Title", "Company", "Place", "Id">>,
             tbody |-> [i \in 1..Len(jobs) |->
                          [style  |-> clrs[((i - 1) % 2) + 1],
                           cells  |-> <<i, jobs[i][1], jobs[i][2], jobs[i][3]>>,
                           a      |-> [text |-> Last(Split(jobs[i][4], <<"/">>)),
                                       href |-> jobs[i][4]]]]]
    IN  [textresp |-> plaintext_body, htmlresp |-> htmldoc]

NEW_JOBS == <<"n","e","w"," ","j","o","b","s">>

\* a subject that counts the extracted job ids instead of the kept listings
resp_subject_of_extracted(jobs, subject) ==
    [count |-> Len(job_ids), rest |-> Last(Split(subject, NEW_JOBS))]

\* f'Hey: {len(filtered_jobs)} new jobs {subject.split("new jobs")[-1]}'
resp_subject_of(jobs, subject) ==
    [count |-> Len(jobs), rest |-> Last(Split(subject, NEW_JOBS))]

(***************************************************************************)
(* Inputs of the handler specification.                                    *)
(***************************************************************************)
ID_A == <<"1","2","3","4","5","6","7","8","9","0">>
ID_B == <<"0","9","8","7","6","5","4","3","2","1">>
ID_C == <<"1","1","1","1","1","1","1","1","1","1">>
ID_SHORT == <<"9","8","7","6","5">>
Link(id) == LI_BASE_URL \o id

BodyThree ==
    Concat(<<Link(ID_A), <<" ">>, Link(ID_B), <<"\n">>, Link(ID_A), <<" ">>,
             Link(ID_C), <<" ">>, Link(ID_SHORT)>>)
BodyOne == Concat(<<Link(ID_A), <<" ">>, Link(ID_SHORT)>>)
BodyHtml == Concat(<<<<"<","a",">">>, Link(ID_B), <<"<","/","a",">">>>>)

Mails ==
    { <<Part("multipart/alternative", <<>>), Part("text/plain", BodyThree),
        Part("text/html", BodyHtml)>>,
      <<Part("multipart/mixed", <<>>), Part("text/plain", BodyThree),
        Part("text/plain", BodyOne)>>,
      <<Part("text/html", BodyHtml)>> }

Subjects ==
    { <<"2"," ">> \o NEW_JOBS \o <<" ","i","n"," ","U","K">>,
      <<"J","o","b","s">> }

ActionTypes == {"S3", "SNS", "Lambda"}

DescDiv == << <<"class", DESC_CLASS>> >>
PageOf(titleTokens) ==
    <<StartTag("head", <<>>)>> \o titleTokens \o
    <<EndTag("head"), StartTag("div", DescDiv), Data(<<"d","1">>),
      StartTag("p", <<>>), Data(<<"d","2">>), EndTag("p"), EndTag("div")>>
PageAcme == PageOf(<<StartTag("title", <<>>), Data(ACME_TITLE), EndTag("title")>>)
PageNoSeparators ==
    PageOf(<<StartTag("title", <<>>), Data(<<"L","i","n","k","e","d","I","n">>),
             EndTag("title")>>)
PageEmptyTitle == PageOf(<<StartTag("title", <<>>), EndTag("title")>>)
PageNoTitle == PageOf(<<>>)
Pages == {PageAcme, PageNoSeparators, PageEmptyTitle, PageNoTitle}

DetectOutcomes == {"en", "de", "fail"}

\* requests.get(job_url): it raises (no response), or returns a response
Responses ==
    {[kind |-> "error", status |-> 0, page |-> <<>>, detect |-> "fail"]}
    \cup {[kind |-> "response", status |-> st, page |-> <<>>, detect |-> "fail"] :
             st \in {404, 500}}
    \cup {[kind |-> "response", status |-> 200, page |-> pg, detect |-> d] :
             pg \in Pages, d \in DetectOutcomes}
    \cup {[kind |-> "response", status |-> 300, page |-> PageAcme, detect |-> "en"]}

(***************************************************************************)
(* handler.                                                                *)
(***************************************************************************)
Init ==
    /\ pc = "start"
    /\ event \in [action : [type : ActionTypes], sender : {"me@example.com"},
                  subject : Subjects, stored : Mails]
    /\ s3_reads = 0
    /\ msg_parts = <<>>
    /\ plain_text_body = <<>>
    /\ job_ids = <<>>
    /\ idx = 0
    /\ fetched = <<>>
    /\ filtered_jobs = <<>>
    /\ reply = [built |-> FALSE]
    /\ sends = <<>>
    /\ raised = "none"
    /\ ParserIdle
    /\ TitleIdle

\* a check that lets every action type through
not_saved_to_s3_never(action) == FALSE

\* line 183
not_saved_to_s3(action) == action.type # "S3"

\* lines 182-185
CheckAction ==
    /\ pc = "start"
    /\ pc' = IF not_saved_to_s3(event.action) THEN "returned" ELSE "read"
    /\ UNCHANGED <<event, s3_reads, msg_parts, plain_text_body, job_ids, idx,
                   fetched, filtered_jobs, reply, sends, raised, parserVars, titleVars>>

\* lines 188-192: mail_obj.get()["Body"].read(), which may raise
ReadMail ==
    /\ pc = "read"
    /\ s3_reads' = s3_reads + 1
    /\ \E succeeds \in BOOLEAN :
          IF succeeds
          THEN /\ msg_parts' = event.stored
               /\ pc' = "decode"
               /\ UNCHANGED raised
          ELSE /\ raised' = "S3Error"
               /\ pc' = "raised"
               /\ UNCHANGED msg_parts
    /\ UNCHANGED <<event, plain_text_body, job_ids, idx, fetched, filtered_jobs,
                   reply, sends, parserVars, titleVars>>

\* line 192
DecodeEmail ==
    /\ pc = "decode"
    /\ plain_text_body' = decode_email(msg_parts)
    /\ pc' = "extract"
    /\ UNCHANGED <<event, s3_reads, msg_parts, job_ids, idx, fetched, filtered_jobs,
                   reply, sends, raised, parserVars, titleVars>>

\* line 193, extract_jobs
ExtractJobs ==
    /\ pc = "extract"
    /\ job_ids' \in ListsOf(extract_jobs(plain_text_body))
    /\ pc' = "filter"
    /\ UNCHANGED <<event, s3_reads, msg_parts, plain_text_body, idx, fetched,
                   filtered_jobs, reply, sends, raised, parserVars, titleVars>>

\* line 193, filter_jobs: one iteration of its loop
FilterJob ==
    /\ pc = "filter"
    /\ idx < Len(job_ids)
    /\ \E r \in Responses :
          LET it == iteration(job_ids[idx + 1], r)
          IN  /\ fetched' = Append(fetched, it)
              /\ IF it.error # "none"
                 THEN /\ raised' = it.error
                      /\ pc' = "raised"
                      /\ UNCHANGED <<idx, filtered_jobs>>
                 ELSE /\ idx' = idx + 1
                      /\ filtered_jobs' = IF it.appended
                                          THEN filtered_jobs \o <<it.job>>
                                          ELSE filtered_jobs
                      /\ UNCHANGED <<pc, raised>>
    /\ UNCHANGED <<event, s3_reads, msg_parts, plain_text_body, job_ids, reply,
                   sends, parserVars, titleVars>>

\* line 123: filter_jobs returns
FilterReturn ==
    /\ pc = "filter"
    /\ idx = Len(job_ids)
    /\ pc' = "build"
    /\ UNCHANGED <<event, s3_reads, msg_parts, plain_text_body, job_ids, idx,
                   fetched, filtered_jobs, reply, sends, raised, parserVars, titleVars>>

\* lines 194-203
BuildReply ==
    /\ pc = "build"
    /\ reply' = [built |-> TRUE,
                 textresp |-> build_reply(filtered_jobs, event.subject).textresp,
                 htmlresp |-> build_reply(filtered_jobs, event.subject).htmlresp,
                 resp_subject |-> resp_subject_of(filtered_jobs, event.subject)]
    /\ pc' = "send"
    /\ UNCHANGED <<event, s3_reads, msg_parts, plain_text_body, job_ids, idx,
                   fetched, filtered_jobs, sends, raised, parserVars, titleVars>>

\* lines 205-225: ses_client.send_email, whose failure is re-raised
SendEmail ==
    /\ pc = "send"
    /\ sends' = Append(sends, [to |-> event.sender,
                               subject |-> reply.resp_subject,
                               text |-> reply.textresp,
                               html |-> reply.htmlresp])
    /\ \E succeeds \in BOOLEAN :
          IF succeeds
          THEN pc' = "returned" /\ UNCHANGED raised
          ELSE pc' = "raised" /\ raised' = "SendError"
    /\ UNCHANGED <<event, s3_reads, msg_parts, plain_text_body, job_ids, idx,
                   fetched, filtered_jobs, reply, parserVars, titleVars>>

Next ==
    \/ CheckAction
    \/ ReadMail
    \/ DecodeEmail
    \/ ExtractJobs
    \/ FilterJob
    \/ FilterReturn
    \/ BuildReply
    \/ SendEmail

Spec == Init /\ [][Next]_vars

(***************************************************************************)
(* decode_email and extract_jobs on their own, over wider inputs: the      *)
(* invocation stands at the call, with the message or the body drawn from  *)
(* the bounded sets below.                                                 *)
(***************************************************************************)
PartInputs ==
    {Part(ct, pl) : ct \in {"text/plain", "text/html", "multipart/alternative"},
                    pl \in {<<"a">>, <<"b">>}}

AtCall(position, parts, body) ==
    /\ pc = position
    /\ event = [action |-> [type |-> "S3"], sender |-> "me@example.com",
                subject |-> <<"J","o","b","s">>, stored |-> parts]
    /\ s3_reads = 1
    /\ msg_parts = parts
    /\ plain_text_body = body
    /\ job_ids = <<>>
    /\ idx = 0
    /\ fetched = <<>>
    /\ filtered_jobs = <<>>
    /\ reply = [built |-> FALSE]
    /\ sends = <<>>
    /\ raised = "none"
    /\ ParserIdle
    /\ TitleIdle

InitDecode == \E parts \in SeqsUpTo(PartInputs, MaxParts) : AtCall("decode", parts, <<>>)

NextDecode == DecodeEmail

SpecDecode == InitDecode /\ [][NextDecode]_vars

ID_NINE == <<"1","2","3","4","5","6","7","8","9">>
\* the base URL with its first dot replaced: no occurrence of the base URL
NOT_BASE_URL == [LI_BASE_URL EXCEPT ![12] = "-"]

BodyPieces ==
    { Link(ID_A), Link(ID_B), Link(ID_NINE), NOT_BASE_URL \o ID_C, <<"5">>, <<" ">> }

InitExtract ==
    \E ps \in SeqsUpTo(BodyPieces, MaxPieces) :
        AtCall("extract", <<Part("text/plain", Concat(ps))>>, Concat(ps))

NextExtract == ExtractJobs

SpecExtract == InitExtract /\ [][NextExtract]_vars

(***************************************************************************)
(* C5.  decode_email returns the payload of the LAST text/plain part of    *)
(* the message in traversal order, and the empty string, without raising,  *)
(* when no part is text/plain.                                             *)
(***************************************************************************)
PlainParts == {i \in 1..Len(msg_parts) : msg_parts[i].content_type = "text/plain"}

LastPlainPartWins ==
    pc = "extract" =>
        /\ raised = "none"
        /\ plain_text_body =
              IF PlainParts = {} THEN <<>>
              ELSE msg_parts[CHOOSE i \in PlainParts : \A j \in PlainParts : j <= i].payload

\* two text/plain parts with different payloads, the second one returned
TwoPlainPartsDecoded ==
    /\ pc = "extract"
    /\ Cardinality(PlainParts) = 2
    /\ \E i, j \in PlainParts :
          /\ i < j
          /\ msg_parts[i].payload # msg_parts[j].payload
          /\ plain_text_body = msg_parts[j].payload

(***************************************************************************)
(* C4.  extract_jobs returns exactly the set of digit runs that directly   *)
(* follow an occurrence of the base job-view URL and are exactly 10        *)
(* characters long, each once.                                             *)
(***************************************************************************)
\* the digit runs of length 10 that follow an occurrence of LI_BASE_URL in s
ClaimedJobIds(s) ==
    {SubSeq(s, i + Len(LI_BASE_URL), i + Len(LI_BASE_URL) + 9) :
        i \in {j \in 1..Len(s) :
                 /\ StartsAt(s, LI_BASE_URL, j)
                 /\ \A k \in 0..9 :
                       /\ j + Len(LI_BASE_URL) + k <= Len(s)
                       /\ s[j + Len(LI_BASE_URL) + k] \in Digits
                 /\ ~(/\ j + Len(LI_BASE_URL) + 10 <= Len(s)
                      /\ s[j + Len(LI_BASE_URL) + 10] \in Digits)}}

ListSet(list) == {list[k] : k \in 1..Len(list)}

ExtractsIdsAfterBaseUrl ==
    pc = "filter" =>
        /\ ListSet(job_ids) = ClaimedJobIds(plain_text_body)
        /\ Len(job_ids) = Cardinality(ListSet(job_ids))

(***************************************************************************)
(* C1.  In one invocation the mail send is attempted at most once, and     *)
(* only after the read, decode, extract, the enrichment of every extracted *)
(* reference and build_reply completed without error; when a fetched title *)
(* lacks the " hiring " or " in " separator, at any reference, no mail is  *)
(* sent at all.                                                            *)
(***************************************************************************)
LacksSeparators(t) == Find(t, SEP_HIRING_SP, 1) = 0 \/ Find(t, SEP_IN, 1) = 0

Parsed(e) == e.response.kind = "response" /\ ok(e.response)

SendOnlyAfterWholePipeline ==
    /\ Len(sends) <= 1
    /\ sends # <<>> =>
          /\ s3_reads = 1
          /\ plain_text_body = decode_email(event.stored)
          /\ ListSet(job_ids) = extract_jobs(plain_text_body)
          /\ Len(fetched) = Len(job_ids)
          /\ \A i \in 1..Len(fetched) :
                fetched[i].job_id = job_ids[i] /\ fetched[i].error = "none"
          /\ reply.built
          /\ sends[1].text = build_reply(filtered_jobs, event.subject).textresp
          /\ sends[1].html = build_reply(filtered_jobs, event.subject).htmlresp
    /\ (\E i \in 1..Len(fetched) :
           Parsed(fetched[i]) /\ LacksSeparators(fetched[i].title)) => sends = <<>>

\* the third reference's title lacks the separators after the first one was
\* accepted: the invocation raised and nothing was sent
AbortedAtThirdReference ==
    /\ pc = "raised"
    /\ raised = "IndexError"
    /\ Len(fetched) = 3
    /\ fetched[1].appended
    /\ fetched[3].title # <<>>
    /\ LacksSeparators(fetched[3].title)
    /\ sends = <<>>

(***************************************************************************)
(* C2.  A fetch failure for one reference (a non-2xx response or a         *)
(* transport failure) drops only that reference: no error reaches the      *)
(* caller of filter_jobs, every other reference is still fetched once in   *)
(* enumeration order, and the returned list is the accepted listings of    *)
(* the references whose fetch succeeded, in enumeration order.             *)
(***************************************************************************)
FetchFailed(e) ==
    e.response.kind = "error" \/ e.response.status \notin 200..299

CleanSuccess(e) ==
    /\ ~FetchFailed(e)
    /\ ~LacksSeparators(feed(DescriptionParserInit, e.response.page).data.title)

RECURSIVE AcceptedUrls(_)
AcceptedUrls(log) ==
    IF log = <<>> THEN <<>>
    ELSE (IF ~FetchFailed(Head(log)) /\ InList(Head(log).response.detect, required_languages)
          THEN <<Link(Head(log).job_id)>> ELSE <<>>) \o AcceptedUrls(Tail(log))

FetchFailureDropsOnlyThatReference ==
    (\A i \in 1..Len(fetched) : FetchFailed(fetched[i]) \/ CleanSuccess(fetched[i])) =>
        /\ raised \notin {"ConnectionError", "IndexError"}
        /\ pc = "build" =>
              /\ [i \in 1..Len(fetched) |-> fetched[i].job_id] = job_ids
              /\ [k \in 1..Len(filtered_jobs) |-> filtered_jobs[k][4]] = AcceptedUrls(fetched)

(***************************************************************************)
(* C3.  When the action type is not "S3", the invocation ends with no      *)
(* output: the raw message is never read, no listing is fetched, no report *)
(* is built and no mail is sent.                                           *)
(***************************************************************************)
NonS3ActionDoesNothing ==
    event.action.type # "S3" =>
        /\ pc \in {"start", "returned"}
        /\ s3_reads = 0
        /\ msg_parts = <<>>
        /\ fetched = <<>>
        /\ ~reply.built
        /\ sends = <<>>
        /\ raised = "none"

NonS3ActionReturned ==
    /\ pc = "returned"
    /\ event.action.type = "SNS"
    /\ event.stored # <<>>

(***************************************************************************)
(* C7.  When language classification of a listing's description fails,    *)
(* the failure is not propagated: the language is "unknown", the listing   *)
(* is not in the result under the default accepted set, and the loop goes  *)
(* on; a listing is in the result iff its language is in the accepted set. *)
(***************************************************************************)
InResult(e) ==
    \E k \in 1..Len(filtered_jobs) : filtered_jobs[k][4] = Link(e.job_id)

ClassificationFailureIsUnknown ==
    \A i \in 1..Len(fetched) :
        LET e == fetched[i]
        IN  (Parsed(e) /\ ~LacksSeparators(e.title)) =>
                /\ e.error = "none"
                /\ i <= idx
                /\ e.language = IF e.response.detect = "fail" THEN "unknown"
                                ELSE e.response.detect
                /\ e.response.detect = "fail" => ~InResult(e)
                /\ InResult(e) <=> InList(e.language, required_languages)

\* classification failed at the first reference and the second was kept
ClassificationFailedThenKept ==
    /\ Len(fetched) >= 2
    /\ Parsed(fetched[1])
    /\ fetched[1].response.detect = "fail"
    /\ fetched[1].language = "unknown"
    /\ fetched[2].appended
    /\ Len(filtered_jobs) = 1

(***************************************************************************)
(* C8.  When a successfully fetched page yields no title text, the title   *)
(* used for field splitting is the sentinel "No Title Found", and the      *)
(* enrichment of that reference does not raise.                            *)
(***************************************************************************)
NoTitleText(page) == feed(DescriptionParserInit, page).data.title = <<>>

NoTitleTextUsesSentinel ==
    \A i \in 1..Len(fetched) :
        (Parsed(fetched[i]) /\ NoTitleText(fetched[i].response.page)) =>
            /\ fetched[i].title = NO_TITLE_FOUND
            /\ fetched[i].error = "none"

(***************************************************************************)
(* C9.  In every invocation that reaches the send, the count in the reply  *)
(* subject equals the number of numbered entries of the plaintext report   *)
(* and the number of data rows of the HTML table, all equal to the number  *)
(* of listings that survived fetching and language filtering; entries are  *)
(* in the order the listings were produced and numbered 1..n; when every   *)
(* fetch returns a failure status the count is 0 and there are no entries. *)
(***************************************************************************)
IsEntry(token) == token.kind = "entry"
Survived(e) == Parsed(e) /\ e.error = "none" /\ InList(e.language, required_languages)
Survivors == SelectSeq(fetched, Survived)

CountsAgree(m) ==
    LET entries == SelectSeq(m.text, IsEntry)
    IN  /\ m.subject.count = Len(entries)
        /\ Len(m.html.tbody) = Len(entries)
        /\ Len(Survivors) = Len(entries)
        /\ \A k \in 1..Len(entries) :
              /\ entries[k].n = k
              /\ m.html.tbody[k].cells[1] = k
              /\ m.html.tbody[k].a.href = Link(Survivors[k].job_id)
              /\ entries[k].value = Join(Survivors[k].job, <<",", " ">>)

NoEntries(m) == m.subject.count = 0 /\ SelectSeq(m.text, IsEntry) = <<>>

====
